---- MODULE Spec2Model ----
(***************************************************************************)
(* The authentication service of routes/auth.py: the users table, the JWT  *)
(* codec (python-jose, HS256), the password hasher (passlib bcrypt), the   *)
(* get_current_user dependency and the signup / login / profile / logout   *)
(* routes.  One process lifetime: SECRET_KEY is set when the module is     *)
(* imported.  Time is in whole seconds, as python-jose reads it.           *)
(* The todo routes of routes/example.py (todos_db, next_id) sit behind the *)
(* same dependency and run in the thread pool.                             *)
(***************************************************************************)
EXTENDS Integers, Sequences, FiniteSets, TLC

\* ------------------------------------------------------------ bounds
MaxProcs == 2      \* signup requests that may be in flight together
MaxId == 2         \* rows the users table may ever hold (ids 1..MaxId)
MaxTokens == 1     \* tokens clients hold at one time
MaxTodos == 2      \* create_todo calls one process lifetime serves

\* ------------------------------------------------------------ program constants
ACCESS_TOKEN_EXPIRE_MINUTES == 30
ALGORITHM == "HS256"

Procs == 1..MaxProcs
Usernames == {"alice", "bob"}
Emails == {"a@x.com", "b@x.com"}
Passwords == {"pw1", "pw2"}
Keys == {"k1", "k2"}

\* The seconds of one token lifetime (timedelta(minutes=...)).
TokenLifetime == ACCESS_TOKEN_EXPIRE_MINUTES * 60

\* The instants the clock is read at: the start, and the second before, at and
\* after one whole token lifetime.
ClockInstants == {0, TokenLifetime - 1, TokenLifetime, TokenLifetime + 1}

\* ------------------------------------------------------------ Python builtins
Digit == <<"0", "1", "2", "3", "4", "5", "6", "7", "8", "9">>

RECURSIVE py_str(_)
\* str(n) of a non-negative int: its decimal digits.
py_str(n) ==
    IF n < 10 THEN <<Digit[n + 1]>>
    ELSE Append(py_str(n \div 10), Digit[(n % 10) + 1])

DigitValue(c) == CHOOSE d \in 0..9 : Digit[d + 1] = c

RECURSIVE DigitsValue(_)
DigitsValue(s) ==
    IF Len(s) = 0 THEN 0
    ELSE 10 * DigitsValue(SubSeq(s, 1, Len(s) - 1)) + DigitValue(s[Len(s)])

\* int(s) of a str: the number a digit string denotes, ValueError otherwise.
py_int(s) ==
    IF Len(s) > 0 /\ \A i \in 1..Len(s) : \E d \in 1..10 : Digit[d] = s[i]
    THEN [ok |-> TRUE, val |-> DigitsValue(s)]
    ELSE [ok |-> FALSE, val |-> 0]

\* ------------------------------------------------------------ state
VARIABLES
    users,        \* the committed rows of the users table
    next_id,      \* the next primary key the table hands out
    SECRET_KEY,   \* the signing secret of this process
    now,          \* the clock, in whole seconds
    issued,       \* the tokens clients hold, each with the user it was returned for
    procs,        \* the signup requests in flight
    response,     \* the response the last step sent, NoResponse if none
    logged_out,   \* the tokens a logout has succeeded with (history)
    todos_db,     \* routes/example.py: the in-memory todos, by key
    todo_next_id, \* routes/example.py: its module global next_id
    threads,      \* the create_todo calls running in the thread pool
    created       \* the todos create_todo has returned, not yet deleted (history)

todo_vars == <<todos_db, todo_next_id, threads, created>>

vars ==
    <<users, next_id, SECRET_KEY, now, issued, procs, response, logged_out,
      todos_db, todo_next_id, threads, created>>

\* ------------------------------------------------------------ password hasher
\* pwd_context.hash: bcrypt draws a fresh salt; the digest binds salt and password.
bcrypt_hash(password, salt) ==
    [scheme |-> "bcrypt", salt |-> salt, digest |-> <<salt, password>>]

hash_password(password, salt) == bcrypt_hash(password, salt)

\* pwd_context.verify: recompute the digest with the stored salt and compare.
verify_password(plain_password, hashed_password) ==
    hashed_password.digest = <<hashed_password.salt, plain_password>>

\* ------------------------------------------------------------ token codec
\* The HMAC tag of header and claims under a key (an ideal MAC: one tag per input).
Mac(key, alg, claims) == <<key, alg, claims>>

\* jwt.encode(claims, key, algorithm)
jwt_encode(claims, key, alg) ==
    [kind |-> "jwt", alg |-> alg, claims |-> claims, sig |-> Mac(key, alg, claims)]

\* jwt.decode with the signature left unverified.
jwt_decode_unverified(token, key, algorithms, t) ==
    IF token.kind # "jwt" THEN [kind |-> "JWTError", why |-> "malformed"]
    ELSE IF token.alg \notin algorithms THEN [kind |-> "JWTError", why |-> "algorithm"]
    ELSE IF "exp" \in DOMAIN token.claims /\ token.claims.exp < t
        THEN [kind |-> "JWTError", why |-> "expired"]
    ELSE [kind |-> "claims", claims |-> token.claims]

\* jwt.decode(token, key, algorithms) read at time t: the structure, the pinned
\* algorithm, the signature, then the exp claim (python-jose: expired when
\* exp < now, both in whole seconds).  Every failure is a JWTError.
jwt_decode(token, key, algorithms, t) ==
    IF token.kind # "jwt" THEN [kind |-> "JWTError", why |-> "malformed"]
    ELSE IF token.alg \notin algorithms THEN [kind |-> "JWTError", why |-> "algorithm"]
    ELSE IF token.sig # Mac(key, token.alg, token.claims)
        THEN [kind |-> "JWTError", why |-> "signature"]
    ELSE IF "exp" \in DOMAIN token.claims /\ token.claims.exp < t
        THEN [kind |-> "JWTError", why |-> "expired"]
    ELSE [kind |-> "claims", claims |-> token.claims]

\* create_access_token(data) at the current time, data = {"sub", "username"}.
create_access_token(sub, username) ==
    jwt_encode([sub |-> sub, username |-> username, exp |-> now + TokenLifetime],
               SECRET_KEY, ALGORITHM)

\* payload.get("username"): the claim, or None.
PyNone == "None"

\* verify_token reading the username under a claim name the token does not carry.
verify_token_wrong_claim(token) ==
    LET payload == jwt_decode(token, SECRET_KEY, {ALGORITHM}, now) IN
    IF payload.kind = "JWTError" THEN [kind |-> "None"]
    ELSE IF "sub" \notin DOMAIN payload.claims THEN [kind |-> "None"]
    ELSE IF ~py_int(payload.claims.sub).ok THEN [kind |-> "ValueError"]
    ELSE [kind |-> "data",
          user_id |-> py_int(payload.claims.sub).val,
          username |-> IF "user" \in DOMAIN payload.claims
                       THEN payload.claims.user ELSE PyNone]

\* verify_token(token): the token data, None, or the ValueError int() raises
\* (only JWTError is caught).
verify_token(token) ==
    LET payload == jwt_decode(token, SECRET_KEY, {ALGORITHM}, now) IN
    IF payload.kind = "JWTError" THEN [kind |-> "None"]
    ELSE IF "sub" \notin DOMAIN payload.claims THEN [kind |-> "None"]
    ELSE IF ~py_int(payload.claims.sub).ok THEN [kind |-> "ValueError"]
    ELSE [kind |-> "data",
          user_id |-> py_int(payload.claims.sub).val,
          username |-> IF "username" \in DOMAIN payload.claims
                       THEN payload.claims.username ELSE PyNone]

\* ------------------------------------------------------------ users table
\* db.query(User).filter(User.id == id).first()
UserById(id) ==
    IF \E u \in users : u.id = id
    THEN {CHOOSE u \in users : u.id = id} ELSE {}

\* db.query(User).filter(User.username == username).first()
UserByUsername(username) ==
    IF \E u \in users : u.username = username
    THEN {CHOOSE u \in users : u.username = username} ELSE {}

\* db.query(User).filter(User.email == email).first()
UserByEmail(email) ==
    IF \E u \in users : u.email = email
    THEN {CHOOSE u \in users : u.email = email} ELSE {}

\* UserResponse.from_orm(user): the public view, never the hash.
UserResponse(u) ==
    [kind |-> "user", id |-> u.id, username |-> u.username, email |-> u.email,
     is_active |-> u.is_active]

\* ------------------------------------------------------------ responses
NoBody == [kind |-> "none"]
NoCred == [kind |-> "none"]
Malformed == [kind |-> "malformed"]

\* What a step answers: the route, the request it was given (the body of a
\* signup or login, the credentials of a protected route) and the HTTP response.
Response(op, request, status, detail, headers, body) ==
    [op |-> op, request |-> request, status |-> status, detail |-> detail,
     headers |-> headers, body |-> body]

NoResponse == Response("none", NoCred, 0, "", {}, NoBody)

\* HTTPException(status_code, detail, headers)
HTTPException(status, detail, headers) ==
    [kind |-> "HTTPException", status |-> status, detail |-> detail, headers |-> headers]

\* TokenResponse(access_token, expires_in, user), token_type "bearer"
TokenResponse(access_token, u) ==
    [kind |-> "token", access_token |-> access_token, token_type |-> "bearer",
     expires_in |-> ACCESS_TOKEN_EXPIRE_MINUTES * 60, user |-> UserResponse(u)]

\* ------------------------------------------------------------ authentication gate
\* The one exception get_current_user raises.
credentials_exception ==
    HTTPException(401, "Could not validate credentials", {<<"WWW-Authenticate", "Bearer">>})

\* get_current_user without the lookup's None check: the token is trusted.
get_current_user_trusting(cred) ==
    IF cred.kind = "none" THEN HTTPException(403, "Not authenticated", {})
    ELSE LET token_data == verify_token(cred) IN
         IF token_data.kind = "ValueError" THEN [kind |-> "ValueError"]
         ELSE IF token_data.kind = "None" THEN credentials_exception
         ELSE IF UserById(token_data.user_id) = {}
             THEN [kind |-> "user",
                   user |-> [id |-> token_data.user_id, username |-> token_data.username,
                             email |-> "", is_active |-> TRUE]]
         ELSE [kind |-> "user", user |-> CHOOSE u \in UserById(token_data.user_id) : TRUE]

\* get_current_user answering a missing user with its own exception, as the
\* dependency of api_routes.py does.
get_current_user_telling(cred) ==
    IF cred.kind = "none" THEN HTTPException(403, "Not authenticated", {})
    ELSE LET token_data == verify_token(cred) IN
         IF token_data.kind = "ValueError" THEN [kind |-> "ValueError"]
         ELSE IF token_data.kind = "None" THEN credentials_exception
         ELSE IF UserById(token_data.user_id) = {}
             THEN HTTPException(401, "User not found", {})
         ELSE [kind |-> "user", user |-> CHOOSE u \in UserById(token_data.user_id) : TRUE]

\* get_current_user consulting a revocation list that logout fills.
get_current_user_revoking(cred) ==
    IF cred.kind = "none" THEN HTTPException(403, "Not authenticated", {})
    ELSE LET token_data == verify_token(cred) IN
         IF token_data.kind = "ValueError" THEN [kind |-> "ValueError"]
         ELSE IF token_data.kind = "None" \/ cred \in logged_out THEN credentials_exception
         ELSE IF UserById(token_data.user_id) = {} THEN credentials_exception
         ELSE [kind |-> "user", user |-> CHOOSE u \in UserById(token_data.user_id) : TRUE]

\* get_current_user(credentials, db): the user, the HTTPException raised, or the
\* uncaught ValueError of verify_token.  security = HTTPBearer() refuses a
\* request without an Authorization header (403) before the body runs.
get_current_user(cred) ==
    IF cred.kind = "none" THEN HTTPException(403, "Not authenticated", {})
    ELSE LET token_data == verify_token(cred) IN
         IF token_data.kind = "ValueError" THEN [kind |-> "ValueError"]
         ELSE IF token_data.kind = "None" THEN credentials_exception
         ELSE IF UserById(token_data.user_id) = {} THEN credentials_exception
         ELSE [kind |-> "user", user |-> CHOOSE u \in UserById(token_data.user_id) : TRUE]

\* ------------------------------------------------------------ requests
\* UserCreate bodies a client may post.
UserCreate == [username : Usernames, email : Emails, password : {"pw1"}]

\* The salts bcrypt may draw.
Salts == {"s1"}

NoData == [username |-> "", email |-> "", password |-> ""]

\* Tokens signed under this SECRET_KEY by another holder of it (the key comes
\* from the deployment's environment): one without a sub claim, one whose sub
\* is not a number.  Their exp lies beyond the clock's horizon.
Horizon == 2 * TokenLifetime

OtherHolderTokens ==
    { jwt_encode([username |-> "alice", exp |-> Horizon], SECRET_KEY, ALGORITHM),
      jwt_encode([sub |-> <<"x">>, username |-> "alice", exp |-> Horizon],
                 SECRET_KEY, ALGORITHM) }

\* What a forger without the key makes of a token it has seen: the expiry pushed
\* out under the old signature, the claims re-signed under another key, and the
\* algorithm declared "none" with no signature.
Forgeries(t) ==
    { [t EXCEPT !.claims.exp = @ + TokenLifetime],
      [t EXCEPT !.alg = "none", !.sig = <<>>] }
    \cup { jwt_encode(t.claims, k, ALGORITHM) : k \in Keys \ {SECRET_KEY} }

\* The Authorization headers a request may carry.
\* A token held by a client, with the user signup or login returned it for.
Grant(access_token, u) ==
    [access_token |-> access_token, user |-> [id |-> u.id, username |-> u.username]]

HeldTokens == { g.access_token : g \in issued }

Credentials ==
    {NoCred, Malformed} \cup HeldTokens \cup OtherHolderTokens
    \cup UNION { Forgeries(t) : t \in HeldTokens }

\* routes/example.py: TodoItem(id, title, completed); description and created_at
\* ride along with title and are left out.
TodoItem(id, title, completed) ==
    [kind |-> "todo", id |-> id, title |-> title, completed |-> completed]

Titles == {"milk", "eggs"}

\* TodoCreate(title)
TodoCreate == [title : Titles]

NoTodo == TodoItem(0, "", FALSE)

\* A thread of the pool with no create_todo call in it.
NoCall == [pc |-> "ready", cred |-> NoCred, user_id |-> 0, todo |-> NoTodo]

\* Proc p has sent its response and is free for the next request.
Finish(p) == [procs EXCEPT ![p] = [pc |-> "ready", data |-> NoData]]

Init ==
    /\ users = {}
    /\ next_id = 1
    /\ SECRET_KEY = "k1"
    /\ now = 0
    /\ issued = {}
    /\ procs = [p \in Procs |-> [pc |-> "ready", data |-> NoData]]
    /\ response = NoResponse
    /\ logged_out = {}
    /\ todos_db = <<>>
    /\ todo_next_id = 1
    /\ threads = [p \in Procs |-> NoCall]
    /\ created = <<>>

\* ------------------------------------------------------------ signup
UsernameTaken(user_data) ==
    Response("signup", user_data, 400, "Username already registered", {}, NoBody)

EmailTaken(user_data) ==
    Response("signup", user_data, 400, "Email already registered", {}, NoBody)

\* The unique constraints of the users table (username, email), checked by the
\* database when the insert is committed.
UniqueViolation(row) ==
    \E u \in users : u.username = row.username \/ u.email = row.email

\* signup from the hash on: hash_password, db.add, db.commit, db.refresh,
\* create_access_token.  The commit raises IntegrityError, which nothing catches
\* (500), or stores the row under the next id.
signup_insert(user_data, salt) ==
    LET db_user == [id |-> next_id, username |-> user_data.username,
                    email |-> user_data.email,
                    hashed_password |-> hash_password(user_data.password, salt),
                    is_active |-> TRUE]
        access_token == create_access_token(py_str(db_user.id), db_user.username)
    IN IF UniqueViolation(db_user)
       THEN /\ response' = Response("signup", user_data, 500, "Internal Server Error", {}, NoBody)
            /\ UNCHANGED <<users, next_id, issued>>
       ELSE /\ next_id <= MaxId
            /\ Cardinality(issued) < MaxTokens
            /\ users' = users \cup {db_user}
            /\ next_id' = next_id + 1
            /\ issued' = issued \cup {Grant(access_token, db_user)}
            /\ response' = Response("signup", user_data, 201, "", {},
                                    TokenResponse(access_token, db_user))

\* signup without its email query.
signup_no_email_check(user_data, salt) ==
    /\ response = NoResponse
    /\ IF UserByUsername(user_data.username) # {}
       THEN response' = UsernameTaken(user_data) /\ UNCHANGED <<users, next_id, issued>>
       ELSE signup_insert(user_data, salt)
    /\ UNCHANGED <<SECRET_KEY, now, procs, logged_out>>
    /\ UNCHANGED todo_vars

\* signup asking for the email before the username.
signup_email_first(user_data, salt) ==
    /\ response = NoResponse
    /\ IF UserByEmail(user_data.email) # {}
       THEN response' = EmailTaken(user_data) /\ UNCHANGED <<users, next_id, issued>>
       ELSE IF UserByUsername(user_data.username) # {}
       THEN response' = UsernameTaken(user_data) /\ UNCHANGED <<users, next_id, issued>>
       ELSE signup_insert(user_data, salt)
    /\ UNCHANGED <<SECRET_KEY, now, procs, logged_out>>
    /\ UNCHANGED todo_vars

\* POST /auth/signup, the whole handler in one step.
signup(user_data, salt) ==
    /\ response = NoResponse
    /\ IF UserByUsername(user_data.username) # {}
       THEN response' = UsernameTaken(user_data) /\ UNCHANGED <<users, next_id, issued>>
       ELSE IF UserByEmail(user_data.email) # {}
       THEN response' = EmailTaken(user_data) /\ UNCHANGED <<users, next_id, issued>>
       ELSE signup_insert(user_data, salt)
    /\ UNCHANGED <<SECRET_KEY, now, procs, logged_out>>
    /\ UNCHANGED todo_vars

\* signup split at its database round trips, for requests served together.
\* First query: is the username taken?
signup_check_username(p, user_data) ==
    /\ response = NoResponse
    /\ procs[p].pc = "ready"
    /\ IF UserByUsername(user_data.username) # {}
       THEN /\ procs' = procs
            /\ response' = UsernameTaken(user_data)
       ELSE /\ procs' = [procs EXCEPT ![p] = [pc |-> "check_email", data |-> user_data]]
            /\ response' = NoResponse
    /\ UNCHANGED <<users, next_id, SECRET_KEY, now, issued, logged_out>>
    /\ UNCHANGED todo_vars

\* Second query: is the email taken?
signup_check_email(p) ==
    /\ response = NoResponse
    /\ procs[p].pc = "check_email"
    /\ IF UserByEmail(procs[p].data.email) # {}
       THEN /\ procs' = Finish(p)
            /\ response' = EmailTaken(procs[p].data)
       ELSE /\ procs' = [procs EXCEPT ![p].pc = "commit"]
            /\ response' = NoResponse
    /\ UNCHANGED <<users, next_id, SECRET_KEY, now, issued, logged_out>>
    /\ UNCHANGED todo_vars

\* The insert, the commit and the response.
signup_commit(p, salt) ==
    /\ response = NoResponse
    /\ procs[p].pc = "commit"
    /\ signup_insert(procs[p].data, salt)
    /\ procs' = Finish(p)
    /\ UNCHANGED <<SECRET_KEY, now, logged_out>>
    /\ UNCHANGED todo_vars

\* ------------------------------------------------------------ login
\* UserLogin bodies a client may post.
UserLogin == [username : Usernames, password : Passwords]

\* login telling an unknown username from a wrong password.
login_response_telling(login_data) ==
    LET found == UserByUsername(login_data.username) IN
    IF found = {}
    THEN Response("login", login_data, 401, "User not found", {}, NoBody)
    ELSE IF \A u \in found : ~verify_password(login_data.password, u.hashed_password)
    THEN Response("login", login_data, 401, "Incorrect username or password", {}, NoBody)
    ELSE LET user == CHOOSE u \in found : TRUE IN
         IF ~user.is_active
         THEN Response("login", login_data, 400, "Inactive user", {}, NoBody)
         ELSE Response("login", login_data, 200, "", {},
                       TokenResponse(create_access_token(py_str(user.id), user.username), user))

\* login looking at is_active before it verifies the password.
login_response_active_first(login_data) ==
    LET found == UserByUsername(login_data.username) IN
    IF found = {}
    THEN Response("login", login_data, 401, "Incorrect username or password", {}, NoBody)
    ELSE LET user == CHOOSE u \in found : TRUE IN
         IF ~user.is_active
         THEN Response("login", login_data, 400, "Inactive user", {}, NoBody)
         ELSE IF ~verify_password(login_data.password, user.hashed_password)
         THEN Response("login", login_data, 401, "Incorrect username or password", {}, NoBody)
         ELSE Response("login", login_data, 200, "", {},
                       TokenResponse(create_access_token(py_str(user.id), user.username), user))

\* The response of login(login_data) in the current state.
login_response(login_data) ==
    LET found == UserByUsername(login_data.username) IN
    IF found = {} \/ \A u \in found : ~verify_password(login_data.password, u.hashed_password)
    THEN Response("login", login_data, 401, "Incorrect username or password", {}, NoBody)
    ELSE LET user == CHOOSE u \in found : TRUE IN
         IF ~user.is_active
         THEN Response("login", login_data, 400, "Inactive user", {}, NoBody)
         ELSE Response("login", login_data, 200, "", {},
                       TokenResponse(create_access_token(py_str(user.id), user.username), user))

\* POST /auth/login
login(login_data) ==
    LET r == login_response(login_data)
        grant == Grant(r.body.access_token, r.body.user)
    IN
    /\ response = NoResponse
    /\ response' = r
    /\ IF r.status = 200
       THEN /\ Cardinality(issued \cup {grant}) <= MaxTokens
            /\ issued' = issued \cup {grant}
       ELSE UNCHANGED issued
    /\ UNCHANGED <<users, next_id, SECRET_KEY, now, procs, logged_out>>
    /\ UNCHANGED todo_vars

\* ------------------------------------------------------------ protected routes
\* What a route behind Depends(get_current_user) answers: the dependency's
\* exception, a 500 for an uncaught error, or the handler's body.
Guarded(op, cred, body) ==
    LET g == get_current_user(cred) IN
    IF g.kind = "user" THEN Response(op, cred, 200, "", {}, body)
    ELSE IF g.kind = "HTTPException" THEN Response(op, cred, g.status, g.detail, g.headers, NoBody)
    ELSE Response(op, cred, 500, "Internal Server Error", {}, NoBody)

\* GET /auth/profile
get_profile(cred) ==
    LET g == get_current_user(cred) IN
    /\ response = NoResponse
    /\ response' = Guarded("profile", cred,
                           IF g.kind = "user" THEN UserResponse(g.user) ELSE NoBody)
    /\ UNCHANGED <<users, next_id, SECRET_KEY, now, issued, procs, logged_out>>
    /\ UNCHANGED todo_vars

\* logout taking the token presented out of circulation.
logout_revoking(cred) ==
    LET g == get_current_user(cred) IN
    /\ response = NoResponse
    /\ response' = Guarded("logout", cred,
                           IF g.kind = "user"
                           THEN [kind |-> "message", user |-> g.user.username]
                           ELSE NoBody)
    /\ logged_out' = IF g.kind = "user" THEN logged_out \cup {cred} ELSE logged_out
    /\ issued' = IF g.kind = "user"
                 THEN { h \in issued : h.access_token # cred } ELSE issued
    /\ UNCHANGED <<users, next_id, SECRET_KEY, now, procs>>
    /\ UNCHANGED todo_vars

\* POST /auth/logout
logout(cred) ==
    LET g == get_current_user(cred) IN
    /\ response = NoResponse
    /\ response' = Guarded("logout", cred,
                           IF g.kind = "user"
                           THEN [kind |-> "message", user |-> g.user.username]
                           ELSE NoBody)
    /\ logged_out' = IF g.kind = "user" THEN logged_out \cup {cred} ELSE logged_out
    /\ UNCHANGED <<users, next_id, SECRET_KEY, now, issued, procs>>
    /\ UNCHANGED todo_vars

\* ------------------------------------------------------------ environment
\* Time passes between requests.
Tick ==
    /\ response = NoResponse
    /\ \E t \in ClockInstants : t > now /\ now' = t
    /\ response' = NoResponse
    /\ UNCHANGED <<users, next_id, SECRET_KEY, issued, procs, logged_out>>
    /\ UNCHANGED todo_vars

\* The users table is a shared database: a row may be deleted by its
\* administrator (no route of the service deletes one).
RemoveUser(u) ==
    /\ response = NoResponse
    /\ u \in users
    /\ users' = users \ {u}
    /\ response' = NoResponse
    /\ UNCHANGED <<next_id, SECRET_KEY, now, issued, procs, logged_out>>
    /\ UNCHANGED todo_vars

\* The is_active column may be cleared by its administrator (no route of the
\* service writes it after the insert).
DeactivateUser(u) ==
    /\ response = NoResponse
    /\ u \in users
    /\ u.is_active
    /\ users' = (users \ {u}) \cup {[u EXCEPT !.is_active = FALSE]}
    /\ response' = NoResponse
    /\ UNCHANGED <<next_id, SECRET_KEY, now, issued, procs, logged_out>>
    /\ UNCHANGED todo_vars

\* A client throws a token away (after logout the client must discard it).
ClientDiscard(g) ==
    /\ response = NoResponse
    /\ g \in issued
    /\ issued' = issued \ {g}
    /\ logged_out' = logged_out \ {g.access_token}
    /\ response' = NoResponse
    /\ UNCHANGED <<users, next_id, SECRET_KEY, now, procs>>
    /\ UNCHANGED todo_vars

\* The response of the last step goes out to its client; the next step is taken
\* after it.
Deliver ==
    /\ response # NoResponse
    /\ response' = NoResponse
    /\ UNCHANGED <<users, next_id, SECRET_KEY, now, issued, procs, logged_out>>
    /\ UNCHANGED todo_vars

\* ------------------------------------------------------------ todos (routes/example.py)
\* d[key] = value of a dict.
DictSet(d, key, value) ==
    [k \in DOMAIN d \cup {key} |-> IF k = key THEN value ELSE d[k]]

\* del d[key]
DictDel(d, key) == [k \in DOMAIN d \ {key} |-> d[k]]

\* The create_todo calls that have read next_id and not yet incremented it.
InFlight == { p \in Procs : threads[p].pc = "store" }

\* The todo ids a client may name.
TodoIds == 1..(MaxTodos + 1)

\* POST /example/todos up to the construction of the TodoItem: the gate
\* resolves the caller, then create_todo reads next_id for the id argument and
\* calls datetime.now() and TodoItem(...).  The endpoint is a plain def, so it
\* runs in a thread of the pool, and the interpreter may switch threads in
\* those calls.
create_todo_build(p, cred, todo_data) ==
    LET g == get_current_user(cred) IN
    /\ response = NoResponse
    /\ threads[p].pc = "ready"
    /\ IF g.kind = "user"
       THEN /\ (todo_next_id - 1) + Cardinality(InFlight) < MaxTodos
            /\ threads' = [threads EXCEPT ![p] =
                               [pc |-> "store", cred |-> cred, user_id |-> g.user.id,
                                todo |-> TodoItem(todo_next_id, todo_data.title, FALSE)]]
            /\ response' = NoResponse
       ELSE /\ response' = Guarded("create_todo", cred, NoBody)
            /\ UNCHANGED threads
    /\ UNCHANGED <<users, next_id, SECRET_KEY, now, issued, procs, logged_out,
                   todos_db, todo_next_id, created>>

\* The rest of create_todo: todos_db[next_id] = {...} reads next_id again,
\* next_id += 1, return todo.  No call lies between them.
create_todo_store(p) ==
    LET t == threads[p] IN
    /\ response = NoResponse
    /\ t.pc = "store"
    /\ todos_db' = DictSet(todos_db, todo_next_id, [todo |-> t.todo, user_id |-> t.user_id])
    /\ todo_next_id' = todo_next_id + 1
    /\ threads' = [threads EXCEPT ![p] = NoCall]
    /\ response' = Response("create_todo", t.cred, 200, "", {}, t.todo)
    /\ created' = Append(created, [todo |-> t.todo, user_id |-> t.user_id, deleted |-> FALSE])
    /\ UNCHANGED <<users, next_id, SECRET_KEY, now, issued, procs, logged_out>>

\* get_user_todos(user_id)
get_user_todos(user_id) ==
    { todos_db[k].todo : k \in { j \in DOMAIN todos_db : todos_db[j].user_id = user_id } }

\* GET /example/todos
get_todos(cred) ==
    LET g == get_current_user(cred) IN
    /\ response = NoResponse
    /\ response' = Guarded("get_todos", cred,
                           IF g.kind = "user"
                           THEN [kind |-> "todos", todos |-> get_user_todos(g.user.id)]
                           ELSE NoBody)
    /\ UNCHANGED <<users, next_id, SECRET_KEY, now, issued, procs, logged_out>>
    /\ UNCHANGED todo_vars

\* DELETE /example/todos/{todo_id}
delete_todo(cred, todo_id) ==
    LET g == get_current_user(cred)
        Kept(e) == IF e.todo.id = todo_id THEN [e EXCEPT !.deleted = TRUE] ELSE e
    IN
    /\ response = NoResponse
    /\ IF g.kind # "user"
       THEN /\ response' = Guarded("delete_todo", cred, NoBody)
            /\ UNCHANGED <<todos_db, created>>
       ELSE IF todo_id \notin DOMAIN todos_db
       THEN /\ response' = Response("delete_todo", cred, 404, "Todo not found", {}, NoBody)
            /\ UNCHANGED <<todos_db, created>>
       ELSE IF todos_db[todo_id].user_id # g.user.id
       THEN /\ response' = Response("delete_todo", cred, 403, "Not your todo", {}, NoBody)
            /\ UNCHANGED <<todos_db, created>>
       ELSE /\ todos_db' = DictDel(todos_db, todo_id)
            /\ created' = [i \in DOMAIN created |-> Kept(created[i])]
            /\ response' = Response("delete_todo", cred, 200, "", {},
                                    [kind |-> "deleted", deleted_todo_id |-> todo_id])
    /\ UNCHANGED <<users, next_id, SECRET_KEY, now, issued, procs, logged_out,
                   todo_next_id, threads>>

\* One server process, each handler a single step.
Next ==
    \/ \E d \in UserCreate, salt \in Salts : signup(d, salt)
    \/ \E d \in UserLogin : login(d)
    \/ \E c \in Credentials : get_profile(c)
    \/ \E c \in Credentials : logout(c)
    \/ Tick
    \/ \E u \in users : RemoveUser(u)
    \/ \E u \in users : DeactivateUser(u)
    \/ \E g \in issued : ClientDiscard(g)
    \/ Deliver

Spec == Init /\ [][Next]_vars

\* The process ends and the module is imported anew: SECRET_KEY is read from the
\* environment (the same value, or a rotated one) or generated afresh.  Requests
\* in flight and the in-memory todos are lost; the users table and the tokens
\* clients hold stay.
Restart ==
    /\ response = NoResponse
    /\ SECRET_KEY' \in Keys
    /\ procs' = [p \in Procs |-> [pc |-> "ready", data |-> NoData]]
    /\ response' = NoResponse
    /\ todos_db' = <<>>
    /\ todo_next_id' = 1
    /\ threads' = [p \in Procs |-> NoCall]
    /\ created' = <<>>
    /\ UNCHANGED <<users, next_id, now, issued, logged_out>>

\* A service restarted between requests.
NextRotate ==
    \/ \E d \in UserCreate, salt \in Salts : signup(d, salt)
    \/ \E d \in UserLogin : login(d)
    \/ \E c \in Credentials : get_profile(c)
    \/ \E c \in Credentials : logout(c)
    \/ Tick
    \/ \E g \in issued : ClientDiscard(g)
    \/ Deliver
    \/ Restart

SpecRotate == Init /\ [][NextRotate]_vars

\* Signup requests served together, interleaved at their database round trips.
NextConcurrent ==
    \/ \E p \in Procs, d \in UserCreate : signup_check_username(p, d)
    \/ \E p \in Procs : signup_check_email(p)
    \/ \E p \in Procs, salt \in Salts : signup_commit(p, salt)
    \/ \E d \in UserLogin : login(d)
    \/ \E g \in issued : ClientDiscard(g)
    \/ Deliver

SpecConcurrent == Init /\ [][NextConcurrent]_vars

\* The todo routes served by the thread pool, their callers signed up first.
NextTodos ==
    \/ \E d \in UserCreate, salt \in Salts : signup(d, salt)
    \/ \E g \in issued : ClientDiscard(g)
    \/ Deliver
    \/ \E p \in Procs, c \in Credentials, d \in TodoCreate : create_todo_build(p, c, d)
    \/ \E p \in Procs : create_todo_store(p)
    \/ \E c \in Credentials : get_todos(c)
    \/ \E c \in Credentials, i \in TodoIds : delete_todo(c, i)

SpecTodos == Init /\ [][NextTodos]_vars

\* ------------------------------------------------------------ properties
IsGate(r) == r.op \in {"profile", "logout"}

\* The token carries the pinned algorithm and a signature made with SECRET_KEY.
SignatureOK(t) ==
    /\ t.kind = "jwt"
    /\ t.alg = ALGORITHM
    /\ t.sig = Mac(SECRET_KEY, t.alg, t.claims)

HasSub(t) == "sub" \in DOMAIN t.claims

\* The subject of a signed token is a number and a row with that id exists.
SubjectPresent(t) ==
    /\ HasSub(t)
    /\ py_int(t.claims.sub).ok
    /\ \E u \in users : u.id = py_int(t.claims.sub).val

SubjectAbsent(t) ==
    /\ HasSub(t)
    /\ py_int(t.claims.sub).ok
    /\ ~\E u \in users : u.id = py_int(t.claims.sub).val

Unauthorized(r) ==
    /\ r.status = 401
    /\ r.detail = "Could not validate credentials"
    /\ r.headers = {<<"WWW-Authenticate", "Bearer">>}
    /\ r.body = NoBody

TakenBy(user_data) ==
    \E u \in users : u.username = user_data.username \/ u.email = user_data.email

\* C1: a signup whose username was registered by a concurrent signup between
\* its own existence check and its commit creates no record and is answered
\* with the 400 conflict response, not with any other failure.
C1_ConcurrentSignupConflict ==
    [][\A p \in Procs :
          ( /\ procs[p].pc = "commit"
            /\ procs'[p].pc = "ready"
            /\ \E u \in users : u.username = procs[p].data.username )
          => (users' = users /\ response'.status = 400)]_vars

\* C2: no two rows of the users table share a username, an email or an id, and
\* a signup whose username or email is already present is answered 400, leaves
\* the table unchanged and issues no token.
C2_NoDuplicateUsers ==
    /\ [](\A u, v \in users :
            (u.username = v.username \/ u.email = v.email \/ u.id = v.id) => u = v)
    /\ [][(response'.op = "signup" /\ response = NoResponse /\ TakenBy(response'.request))
            => /\ response'.status = 400
               /\ response'.body = NoBody
               /\ users' = users
               /\ next_id' = next_id
               /\ issued' = issued]_vars

\* A second signup for a taken username or email has just been refused.
C2_Witness ==
    /\ response.op = "signup"
    /\ response.status = 400
    /\ TakenBy(response.request)
    /\ Cardinality(users) >= 1

\* C3: the gate and verify_token accept a token only if its signature verifies
\* under SECRET_KEY and its exp is still ahead of the clock (exp > now).
C3_ExpiredOrForgedRejected ==
    /\ (IsGate(response) /\ response.status = 200)
          => (SignatureOK(response.request) /\ response.request.claims.exp > now)
    /\ (IsGate(response) /\ verify_token(response.request).kind = "data")
          => (SignatureOK(response.request) /\ response.request.claims.exp > now)

\* C4: a validly signed, unexpired token whose subject is no longer in the
\* users table is answered 401 and the protected handler does not run.
C4_RemovedSubjectUnauthorized ==
    ( /\ IsGate(response)
      /\ SignatureOK(response.request)
      /\ response.request.claims.exp > now
      /\ SubjectAbsent(response.request) )
    => Unauthorized(response)

\* A held token whose user was removed has just been refused.
C4_Witness ==
    /\ IsGate(response)
    /\ response.request \in HeldTokens
    /\ response.request.claims.exp > now
    /\ SubjectAbsent(response.request)
    /\ response.status = 401

\* C5: no protected handler runs for a user whose is_active flag is false.
C5_InactiveUserRejected ==
    (IsGate(response) /\ response.status = 200)
    => \A u \in users :
          (HasSub(response.request) /\ u.id = py_int(response.request.claims.sub).val)
          => u.is_active

\* The stored password of a row is the given one.
PasswordIs(u, password) == u.hashed_password.digest[2] = password

WrongPassword(login_data) ==
    \E u \in users : u.username = login_data.username /\ ~PasswordIs(u, login_data.password)

NoSuchUser(login_data) == ~\E u \in users : u.username = login_data.username

\* The part of a response its client sees.
Visible(r) == <<r.status, r.detail, r.headers, r.body>>

\* C6: login with a wrong password for an existing username and login with a
\* username that does not exist are answered alike: the same 401, detail,
\* headers and body, in every state of the users table.
C6_LoginFailuresAlike ==
    /\ \A a, b \in UserLogin :
          (WrongPassword(a) /\ NoSuchUser(b))
          => /\ Visible(login_response(a)) = Visible(login_response(b))
             /\ login_response(a).status = 401
    /\ (response.op = "login" /\ (WrongPassword(response.request) \/ NoSuchUser(response.request)))
          => Visible(response) = <<401, "Incorrect username or password", {}, NoBody>>

\* A login with a wrong password has just been refused while another username
\* is unknown.
C6_Witness ==
    /\ response.op = "login"
    /\ response.status = 401
    /\ WrongPassword(response.request)
    /\ \E b \in UserLogin : NoSuchUser(b)

\* The causes of rejection C7 names, for a presented token.
Expired(t) == SignatureOK(t) /\ t.claims.exp < now

ListedCause(t) ==
    \/ t = Malformed
    \/ t.kind = "jwt" /\ ~SignatureOK(t)
    \/ Expired(t)
    \/ SignatureOK(t) /\ ~HasSub(t)
    \/ SignatureOK(t) /\ SubjectAbsent(t)

\* C7: the gate answers every malformed, badly signed, expired, sub-less or
\* subject-less token with the same response: 401, the one generic detail and
\* WWW-Authenticate: Bearer.
C7_UniformRejection ==
    (IsGate(response) /\ ListedCause(response.request)) => Unauthorized(response)

\* An expired held token has just been refused.
C7_Witness ==
    /\ IsGate(response)
    /\ response.request \in HeldTokens
    /\ Expired(response.request)
    /\ response.status = 401

\* C8: a step of the gate, whether it authenticates or rejects, leaves the users
\* table, the secret, the clock and the held tokens (so their expiry) as they
\* were and returns no token.
C8_GateIsPureRead ==
    [][IsGate(response')
          => /\ users' = users
             /\ next_id' = next_id
             /\ SECRET_KEY' = SECRET_KEY
             /\ now' = now
             /\ issued' = issued
             /\ response'.body.kind # "token"]_vars

\* A logout with a held token has just been served.
C8_Witness ==
    /\ response.op = "logout"
    /\ response.status = 200
    /\ response.request \in HeldTokens

\* C9: a token a logout has succeeded with is still accepted by the gate while
\* exp > now and its user exists.
C9_LogoutDoesNotRevoke ==
    ( /\ IsGate(response)
      /\ response.request \in logged_out
      /\ response.request.claims.exp > now
      /\ SubjectPresent(response.request) )
    => response.status = 200

\* The profile has just been served to a token that was logged out earlier.
C9_Witness ==
    /\ response.op = "profile"
    /\ response.request \in logged_out
    /\ response.status = 200

\* C10: before its exp, a held token verifies to exactly the id and username it
\* was returned for, and the profile the gate serves for it has that id.
C10_TokenRoundTrip ==
    \A g \in issued :
        now < g.access_token.claims.exp
        => /\ verify_token(g.access_token)
                = [kind |-> "data", user_id |-> g.user.id, username |-> g.user.username]
           /\ (response.op = "profile" /\ response.request = g.access_token
                  /\ response.status = 200)
                 => response.body.id = g.user.id

\* The profile has just been served for a token issued earlier, with two users
\* in the table.
C10_Witness ==
    /\ response.op = "profile"
    /\ response.status = 200
    /\ \E g \in issued :
          /\ response.request = g.access_token
          /\ g.access_token.claims.exp - TokenLifetime < now
          /\ now < g.access_token.claims.exp
    /\ Cardinality(users) = 2

\* The row a login names, with the password given right or wrong.
RightPassword(login_data) ==
    \E u \in users : u.username = login_data.username /\ PasswordIs(u, login_data.password)

InactiveUser(login_data) ==
    \E u \in users : u.username = login_data.username /\ ~u.is_active

\* C11: login returns a token exactly when the user is found, the password
\* verifies and the user is active; an inactive user with the right password is
\* answered 400 'Inactive user', an inactive user with a wrong password the
\* uniform 401, and a login that is refused issues no token.
C11_LoginIssuesOnlyWhenActive ==
    /\ [](response.op = "login"
            => /\ response.status = 200
                    <=> (RightPassword(response.request) /\ ~InactiveUser(response.request))
               /\ response.status = 200 <=> response.body.kind = "token"
               /\ (RightPassword(response.request) /\ InactiveUser(response.request))
                    => Visible(response) = <<400, "Inactive user", {}, NoBody>>
               /\ (WrongPassword(response.request) /\ InactiveUser(response.request))
                    => Visible(response)
                         = <<401, "Incorrect username or password", {}, NoBody>>)
    /\ [][(response'.op = "login" /\ response = NoResponse /\ response'.status # 200)
            => issued' = issued]_vars

\* An inactive user has just logged in with the right password and been refused.
C11_Witness ==
    /\ response.op = "login"
    /\ response.status = 400
    /\ RightPassword(response.request)
    /\ InactiveUser(response.request)

\* C12: a signup whose username is taken is answered 'Username already
\* registered' whether or not its email is taken too; 'Email already registered'
\* is answered only when the username is free.
C12_UsernameCheckedFirst ==
    [][(response'.op = "signup" /\ response = NoResponse)
          => /\ (\E u \in users : u.username = response'.request.username)
                  => /\ response'.status = 400
                     /\ response'.detail = "Username already registered"
             /\ response'.detail = "Email already registered"
                  => /\ response'.status = 400
                     /\ ~\E u \in users : u.username = response'.request.username
                     /\ \E u \in users : u.email = response'.request.email]_vars

\* A signup that takes its username from one user and its email from another
\* has just been refused.
C12_Witness ==
    /\ response.op = "signup"
    /\ response.status = 400
    /\ \E u, v \in users :
          /\ u # v
          /\ u.username = response.request.username
          /\ v.email = response.request.email

SignedWith(t, key) == t.kind = "jwt" /\ t.sig = Mac(key, t.alg, t.claims)

\* C13: the secret changes only when the process restarts, never in a step that
\* serves a request; the gate accepts a token only if it was signed with the
\* secret the process holds, so a held token signed under an earlier secret is
\* answered 401.
C13_SecretBindsTokens ==
    /\ [](IsGate(response)
            => /\ response.status = 200 => SignedWith(response.request, SECRET_KEY)
               /\ (response.request \in HeldTokens
                     /\ ~SignedWith(response.request, SECRET_KEY))
                    => Unauthorized(response))
    /\ [](\A t \in HeldTokens :
            ~SignedWith(t, SECRET_KEY) => verify_token(t).kind = "None")
    /\ [][SECRET_KEY' # SECRET_KEY => (Restart /\ response' = NoResponse)]_vars

\* An unexpired token of an existing user, signed before the secret changed, has
\* just been refused.
C13_Witness ==
    /\ IsGate(response)
    /\ response.request \in HeldTokens
    /\ \E k \in Keys \ {SECRET_KEY} : SignedWith(response.request, k)
    /\ response.request.claims.exp > now
    /\ SubjectPresent(response.request)
    /\ response.status = 401

\* C14: todo ids are unique and no create overwrites a stored todo: however the
\* concurrent create_todo calls interleave, each call returns an id no other
\* call returned, and every created, not yet deleted todo remains in todos_db
\* under its own id with its creator's user_id.
C14_TodoIdsUnique ==
    /\ \A i, j \in DOMAIN created :
          i # j => created[i].todo.id # created[j].todo.id
    /\ \A i \in DOMAIN created :
          ~created[i].deleted =>
              /\ created[i].todo.id \in DOMAIN todos_db
              /\ todos_db[created[i].todo.id] =
                     [todo |-> created[i].todo, user_id |-> created[i].user_id]

====
